---- MODULE Spec2Model ----
(***************************************************************************)
(* Log ingestion and analysis pipeline of the CI/CD analyzer:              *)
(* webhook controller -> log-processing queue -> worker (download, parse,  *)
(* chunk persistence, embeddings, deterministic classification, RAG/LLM    *)
(* analysis, AnalysisResult upsert).                                       *)
(***************************************************************************)
EXTENDS Integers, Sequences, FiniteSets, TLC

(***************************************************************************)
(* Bounds of the model.                                                    *)
(***************************************************************************)
MaxDeliveries == 2
MaxRuns == 1
MaxWorkers == 2
MaxLogLines == 3
MaxStepLines == 4
MaxRawLines == 3
MaxTextLines == 3
MaxCategoryLen == 3

Runs == 1..MaxRuns
JobIds == 1..MaxDeliveries

Null == "null"

(***************************************************************************)
(* Log text.  A line is a string; a text is a sequence of lines (the text  *)
(* split on newline).  Regular expressions are modelled by the set of      *)
(* lines of the alphabet below that they match.                            *)
(***************************************************************************)
LnBuildCmd == "npm run build"
LnBuildOk == "2024-01-01T10:00:00.000Z compiled successfully"
LnBuildOkClean == "compiled successfully"
LnAssert == "AssertionError: expected 1 to equal 2"
LnExit == "exit 1"
LnGroup == "##[group]Force CI failure (testing)"
LnEndGroup == "##[endgroup]"
LnRun == "Run npm test"
LnPost == "Post checkout"
LnBlank == "   "
LnMarkBuild == "--- Log File: build/1_Build.txt ---"
LnMarkTest == "--- Log File: build/2_Run tests.txt ---"
LnMarkForce == "--- Log File: build/3_Force CI failure.txt ---"
LnNpmMissing == "npm ERR! Cannot find module 'react'"
LnBuildFailed == "Build failed"
LnTypeError == "TypeError: foo is not a function"
LnEconn == "connect ECONNREFUSED 127.0.0.1:5432"
LnVuln == "found 3 vulnerabilities"
LnTimeout == "operation timed out"
LnEnv == "environment not configured"
LnPerm == "ERROR: permission denied"
LnGenericError == "ERROR: something went wrong"
LnEchoExit == "echo failing && exit 1"
LnGroupExit == "##[group]Run exit 1"
LnDoubleTs ==
  "2024-01-01T10:00:00.000Z 2024-01-01T10:00:00.000Z compiled successfully"
LnProgressRaw == "Downloading 50%\rexit 1"
LnProgressExit == "Downloading 50%\nexit 1"
LnSpinRaw == "Downloading 50% \rdone"
LnSpin == "Downloading 50% \ndone"
LnSpinHead == "Downloading 50% "
LnSpinHeadClean == "Downloading 50%"
LnSpinTail == "done"

\* line.replace(ansi).replace(timestamp).replace(progress).trim()
CleanLine(line) ==
  CASE line = LnBuildOk -> LnBuildOkClean
    [] line = LnDoubleTs -> LnBuildOk
    [] line = LnProgressRaw -> LnProgressExit
    [] line = LnSpinRaw -> LnSpin
    [] line = LnSpinHead -> LnSpinHeadClean
    [] line = LnBlank -> ""
    [] OTHER -> line

RECURSIVE cleanLoop(_)
cleanLoop(lines) ==
  IF lines = <<>> THEN <<>>
  ELSE LET c == CleanLine(Head(lines))
       IN (IF Len(c) > 0 THEN <<c>> ELSE <<>>) \o cleanLoop(Tail(lines))

\* rawLog.split('\n').map(clean).filter(nonempty)
cleanLog(rawLog) == cleanLoop(rawLog)

\* patterns.logFileMarker with the step name derived from the file name
logFileMarker ==
  [l \in {LnMarkBuild, LnMarkTest, LnMarkForce} |->
     CASE l = LnMarkBuild -> "Build"
       [] l = LnMarkTest -> "Run tests"
       [] OTHER -> "Force CI failure"]

\* patterns.groupStart with match[1].trim()
groupStart ==
  [l \in {LnGroup, LnGroupExit} |->
     IF l = LnGroup THEN "Force CI failure (testing)" ELSE "Run exit 1"]

\* patterns.groupEnd
groupEnd == {LnEndGroup}

\* patterns.runCommand with the derived step name
runCommand == [l \in {LnRun} |-> "Run: npm test..."]

\* patterns.postStep with the derived step name
postStep == [l \in {LnPost} |-> "Post: checkout"]

NoStep == [name |-> Null, startLine |-> -1, endLine |-> -1, isFromLogFile |-> FALSE]

NewStep(n, i, fromFile) ==
  [name |-> n, startLine |-> i, endLine |-> i, isFromLogFile |-> fromFile]

Closed(cur, e) == [cur EXCEPT !.endLine = e]

\* The for loop of detectSteps; i is the 0-based line index.
RECURSIVE detectLoop(_, _, _, _)
detectLoop(lines, i, steps, cur) ==
  IF i >= Len(lines)
  THEN LET withLast == IF cur # NoStep
                       THEN Append(steps, Closed(cur, Len(lines) - 1))
                       ELSE steps
       IN IF withLast = <<>>
          THEN <<[name |-> "Full Log", startLine |-> 0,
                  endLine |-> Len(lines) - 1, isFromLogFile |-> FALSE]>>
          ELSE withLast
  ELSE LET line == lines[i + 1] IN
    IF line \in DOMAIN logFileMarker
    THEN detectLoop(lines, i + 1,
                    IF cur # NoStep THEN Append(steps, Closed(cur, i - 1)) ELSE steps,
                    NewStep(logFileMarker[line], i, TRUE))
    ELSE IF line \in DOMAIN groupStart
    THEN IF cur # NoStep /\ ~cur.isFromLogFile
         THEN detectLoop(lines, i + 1, Append(steps, Closed(cur, i - 1)),
                         NewStep(groupStart[line], i, FALSE))
         ELSE IF cur = NoStep
         THEN detectLoop(lines, i + 1, steps, NewStep(groupStart[line], i, FALSE))
         ELSE detectLoop(lines, i + 1, steps, cur)
    ELSE IF line \in groupEnd /\ cur # NoStep /\ ~cur.isFromLogFile
    THEN detectLoop(lines, i + 1, Append(steps, Closed(cur, i)), NoStep)
    ELSE IF line \in DOMAIN runCommand /\ cur = NoStep
    THEN detectLoop(lines, i + 1, steps, NewStep(runCommand[line], i, FALSE))
    ELSE IF line \in DOMAIN postStep /\ cur = NoStep
    THEN detectLoop(lines, i + 1, steps, NewStep(postStep[line], i, FALSE))
    ELSE detectLoop(lines, i + 1, steps, cur)

detectSteps(lines) == detectLoop(lines, 0, <<>>, NoStep)

(***************************************************************************)
(* Chunk content.  content = lines.join('\n') is kept in split form: the   *)
(* sequence of newline-free pieces; a cleaned line that holds a newline    *)
(* (from a stray carriage return) contributes several pieces.              *)
(***************************************************************************)
splitNL(line) ==
  CASE line = LnProgressExit -> <<LnSpinHeadClean, LnExit>>
    [] line = LnSpin -> <<LnSpinHead, LnSpinTail>>
    [] OTHER -> <<line>>

RECURSIVE join(_)
join(lines) ==
  IF lines = <<>> THEN <<>>
  ELSE IF Len(lines) = 1 THEN splitNL(Head(lines))
  ELSE LET h == Len(lines) \div 2
       IN join(SubSeq(lines, 1, h)) \o join(SubSeq(lines, h + 1, Len(lines)))

\* content.split('\n')
split(content) == content

RECURSIVE SumLen(_)
SumLen(lines) ==
  IF lines = <<>> THEN 0
  ELSE IF Len(lines) = 1 THEN Len(Head(lines))
  ELSE LET h == Len(lines) \div 2
       IN SumLen(SubSeq(lines, 1, h)) + SumLen(SubSeq(lines, h + 1, Len(lines)))

CeilDiv(a, b) == (a + b - 1) \div b

\* Math.ceil(lines.join(' ').length / 4)
estimateTokens(lines) ==
  CeilDiv(SumLen(lines) + (IF Len(lines) > 0 THEN Len(lines) - 1 ELSE 0), 4)

(***************************************************************************)
(* Error catalogue, in source order: category, set of alphabet lines the   *)
(* pattern matches, confidence.                                            *)
(***************************************************************************)
Pat(c, m, conf) == [category |-> c, pattern |-> m, confidence |-> conf]

errorPatterns == <<
  Pat("Build Failure", {LnBuildFailed}, "high"),
  Pat("Build Failure", {}, "high"),
  Pat("Build Failure", {}, "high"),
  Pat("Dependency Issue", {LnNpmMissing}, "high"),
  Pat("Dependency Issue", {}, "high"),
  Pat("Dependency Issue", {LnNpmMissing}, "medium"),
  Pat("Dependency Issue", {}, "medium"),
  Pat("Dependency Issue", {}, "medium"),
  Pat("Dependency Issue", {}, "medium"),
  Pat("Dependency Issue", {}, "high"),
  Pat("Test Failure", {}, "high"),
  Pat("Test Failure", {}, "high"),
  Pat("Test Failure", {}, "high"),
  Pat("Test Failure", {}, "high"),
  Pat("Test Failure", {LnAssert}, "high"),
  Pat("Syntax Error", {}, "high"),
  Pat("Syntax Error", {}, "high"),
  Pat("Syntax Error", {}, "high"),
  Pat("Runtime Error", {LnTypeError}, "high"),
  Pat("Runtime Error", {}, "high"),
  Pat("Runtime Error", {}, "high"),
  Pat("Runtime Error", {}, "high"),
  Pat("Runtime Error", {}, "high"),
  Pat("Network Error", {LnEconn}, "high"),
  Pat("Network Error", {}, "high"),
  Pat("Network Error", {}, "medium"),
  Pat("API Error", {}, "high"),
  Pat("API Error", {}, "high"),
  Pat("CI Error", {}, "high"),
  Pat("CI Error", {}, "high"),
  Pat("Process Exit", {}, "high"),
  Pat("Process Exit", {}, "medium"),
  Pat("Exit Failure", {LnExit}, "high"),
  Pat("Process Exit", {}, "high"),
  Pat("Error", {LnPerm, LnGenericError}, "medium"),
  Pat("Error", {}, "high"),
  Pat("Error", {}, "high") >>

\* Index of the first catalogue entry matching the line, 0 if none.
RECURSIVE firstMatch(_, _)
firstMatch(line, k) ==
  IF k > Len(errorPatterns) THEN 0
  ELSE IF line \in errorPatterns[k].pattern THEN k
  ELSE firstMatch(line, k + 1)

\* The loop over the lines, evaluated by halves: the errors of the first
\* half of the lines followed by those of the second half.
RECURSIVE findErrorsInLines(_)
findErrorsInLines(lines) ==
  IF lines = <<>> THEN <<>>
  ELSE IF Len(lines) = 1
  THEN LET k == firstMatch(Head(lines), 1)
       IN IF k = 0 THEN <<>>
          ELSE <<[category |-> errorPatterns[k].category,
                  errorMessage |-> Head(lines),
                  confidence |-> errorPatterns[k].confidence,
                  isIntentionalFailure |-> errorPatterns[k].category = "Exit Failure",
                  chunkIndex |-> -1,
                  stepName |-> Null]>>
  ELSE LET h == Len(lines) \div 2
       IN findErrorsInLines(SubSeq(lines, 1, h))
          \o findErrorsInLines(SubSeq(lines, h + 1, Len(lines)))

\* Program constant MAX_CHUNK_LINES.
MAX_CHUNK_LINES == 1000

Min(a, b) == IF a < b THEN a ELSE b

PartNames ==
  [n \in {"Build", "Run tests", "Force CI failure", "Force CI failure (testing)",
          "Run: npm test...", "Post: checkout", "Full Log", "Run exit 1"} |->
     [k \in 1..3 |->
        n \o (CASE k = 1 -> " (part 1)" [] k = 2 -> " (part 2)" [] OTHER -> " (part 3)")]]

mkChunk(idx, name, lines, s, e) ==
  LET errors == findErrorsInLines(lines)
  IN [chunkIndex |-> idx, stepName |-> name, content |-> join(lines),
      startLine |-> s, endLine |-> e, lineCount |-> Len(lines),
      tokenCount |-> estimateTokens(lines),
      hasErrors |-> Len(errors) > 0, errorCount |-> Len(errors)]

\* The inner loop of createChunks for a step longer than MAX_CHUNK_LINES.
RECURSIVE splitStep(_, _, _, _)
splitStep(step, stepLines, i, chunkIndex) ==
  IF i >= Len(stepLines) THEN <<>>
  ELSE LET chunkLines == SubSeq(stepLines, i + 1, Min(i + MAX_CHUNK_LINES, Len(stepLines)))
           absoluteStart == step.startLine + i
       IN <<mkChunk(chunkIndex,
                    PartNames[step.name][(i \div MAX_CHUNK_LINES) + 1],
                    chunkLines, absoluteStart,
                    absoluteStart + Len(chunkLines) - 1)>>
          \o splitStep(step, stepLines, i + MAX_CHUNK_LINES, chunkIndex + 1)

RECURSIVE chunkLoop(_, _, _, _)
chunkLoop(steps, lines, k, chunks) ==
  IF k > Len(steps) THEN chunks
  ELSE LET step == steps[k]
           stepLines == SubSeq(lines, step.startLine + 1, step.endLine + 1)
       IN IF Len(stepLines) <= MAX_CHUNK_LINES
          THEN chunkLoop(steps, lines, k + 1,
                         Append(chunks, mkChunk(Len(chunks), step.name, stepLines,
                                                step.startLine, step.endLine)))
          ELSE chunkLoop(steps, lines, k + 1,
                         chunks \o splitStep(step, stepLines, 0, Len(chunks)))

\* Variant of createChunks that never splits a step.
createChunksUnsplit(steps, lines) ==
  [k \in 1..Len(steps) |->
     mkChunk(k - 1, steps[k].name,
             SubSeq(lines, steps[k].startLine + 1, steps[k].endLine + 1),
             steps[k].startLine, steps[k].endLine)]

createChunks(steps, lines) == chunkLoop(steps, lines, 1, <<>>)

RECURSIVE tagErrors(_, _)
tagErrors(errors, chunk) ==
  IF errors = <<>> THEN <<>>
  ELSE <<[Head(errors) EXCEPT !.chunkIndex = chunk.chunkIndex,
                              !.stepName = chunk.stepName]>>
       \o tagErrors(Tail(errors), chunk)

RECURSIVE dedupLoop(_, _)
dedupLoop(errors, seen) ==
  IF errors = <<>> THEN <<>>
  ELSE LET key == <<Head(errors).category, Head(errors).errorMessage>>
       IN IF key \in seen THEN dedupLoop(Tail(errors), seen)
          ELSE <<Head(errors)>> \o dedupLoop(Tail(errors), seen \cup {key})

\* Variant of deduplicateErrors that keeps every error.
deduplicateNothing(errors) == errors

deduplicateErrors(errors) == dedupLoop(errors, {})

RECURSIVE allErrors(_)
allErrors(chunks) ==
  IF chunks = <<>> THEN <<>>
  ELSE tagErrors(findErrorsInLines(split(Head(chunks).content)), Head(chunks))
       \o allErrors(Tail(chunks))

detectErrors(chunks) == deduplicateErrors(allErrors(chunks))

parse(rawLog) ==
  LET cleanedLines == cleanLog(rawLog)
      steps == detectSteps(cleanedLines)
      chunks == createChunks(steps, cleanedLines)
  IN [chunks |-> chunks, detectedErrors |-> detectErrors(chunks),
      totalLines |-> Len(cleanedLines), totalChunks |-> Len(chunks)]

(***************************************************************************)
(* Deterministic classifier.  Each detector's regular expressions are the  *)
(* set of alphabet lines they match; confidence scores are in percent.     *)
(***************************************************************************)
Filter(seq, Test(_)) == SelectSeq(seq, Test)

\* First element of seq satisfying Test, none if there is none
\* (Array.prototype.find).
find(seq, Test(_), none) ==
  LET hits == {k \in 1..Len(seq) : Test(seq[k])}
  IN IF hits = {} THEN none
     ELSE seq[CHOOSE k \in hits : \A m \in hits : k <= m]

NoError == [category |-> Null]
NoChunk == [chunkIndex |-> -1]
NoClass == [failureType |-> Null]

\* haystack.includes(needle) on single lines of the alphabet
lineIncludes(hay, needle) ==
  \/ hay = needle
  \/ <<hay, needle>> \in {<<LnProgressExit, LnExit>>, <<LnEchoExit, LnExit>>,
                          <<LnGroupExit, LnExit>>}

\* content.includes(needle)
contentIncludes(content, needle) ==
  \E k \in 1..Len(content) : lineIncludes(content[k], needle)

\* stepName.toLowerCase().includes(word)
nameIncludes(name, word) ==
  CASE word = "exit" -> name = "Run exit 1"
    [] word = "force" -> name \in {"Force CI failure", "Force CI failure (testing)"}
    [] word = "fail" -> name \in {"Force CI failure", "Force CI failure (testing)"}
    [] OTHER -> FALSE

exitPattern == {LnExit}
testPatterns == {LnAssert}
\* Variant of buildPatterns without /Cannot find module/i.
buildPatternsNoModule == {LnBuildFailed}

buildPatterns == {LnBuildFailed, LnNpmMissing}
runtimePatterns == {LnTypeError}
infraPatterns == {LnEconn}
securityPatterns == {LnVuln}
timeoutPatterns == {LnTimeout}
depPatterns == {LnNpmMissing}
configPatterns == {LnEnv}
permPatterns == {LnPerm}
lintPatterns == {}

Class(t, p, skip, rc, st, fix, score) ==
  [failureType |-> t, priority |-> p, skipAI |-> skip, rootCause |-> rc,
   failureStage |-> st, suggestedFix |-> fix, confidence |-> score]

anyLineIn(content, pattern) == \E k \in 1..Len(content) : content[k] \in pattern

\* Variant of detectIntentionalFailure that looks at step names only.
detectIntentionalByStepName(chunks, detectedErrors) ==
  LET isForce(c) == nameIncludes(c.stepName, "force") /\ nameIncludes(c.stepName, "fail")
      intentionalStep == find(chunks, isForce, NoChunk)
  IN IF intentionalStep # NoChunk /\ intentionalStep.hasErrors
     THEN Class("INTENTIONAL", 5, TRUE,
                "Intentional CI failure in step: " \o intentionalStep.stepName,
                intentionalStep.stepName,
                "This step is designed to fail for testing purposes.",
                95)
     ELSE NoClass

detectIntentionalFailure(chunks, detectedErrors) ==
  LET isExit(e) == e.category = "Exit Failure" \/ e.errorMessage \in exitPattern
      exitFailure == find(detectedErrors, isExit, NoError)
      isForce(c) == nameIncludes(c.stepName, "force") /\ nameIncludes(c.stepName, "fail")
      intentionalStep == find(chunks, isForce, NoChunk)
  IN IF exitFailure # NoError
     THEN LET isFailed(c) == \/ contentIncludes(c.content, exitFailure.errorMessage)
                             \/ nameIncludes(c.stepName, "exit")
              failedStep == find(chunks, isFailed, NoChunk)
          IN Class("INTENTIONAL", 5,  TRUE,
                   "Intentional CI failure via explicit exit command (exit 1)",
                   IF failedStep # NoChunk THEN failedStep.stepName
                   ELSE IF exitFailure.stepName # Null THEN exitFailure.stepName
                   ELSE "Forced CI Step",
                   "Remove or guard the forced exit 1 step when not testing CI behavior.",
                   100)
     ELSE IF intentionalStep # NoChunk /\ intentionalStep.hasErrors
     THEN Class("INTENTIONAL", 5, TRUE,
                "Intentional CI failure in step: " \o intentionalStep.stepName,
                intentionalStep.stepName,
                "This step is designed to fail for testing purposes.",
                95)
     ELSE NoClass

byErrors(detectedErrors, cats, pattern, t, p, score) ==
  LET hit(e) == e.category \in cats \/ e.errorMessage \in pattern
  IN IF Len(Filter(detectedErrors, hit)) > 0
     THEN Class(t, p, FALSE, Null, Null, Null, score)
     ELSE NoClass

byErrorsOrChunks(detectedErrors, chunks, pattern, t, p, score) ==
  LET hit(e) == e.errorMessage \in pattern
      hitChunk(c) == anyLineIn(c.content, pattern)
  IN IF Len(Filter(detectedErrors, hit)) > 0 \/ Len(Filter(chunks, hitChunk)) > 0
     THEN Class(t, p, FALSE, Null, Null, Null, score)
     ELSE NoClass

detectTestFailure(detectedErrors) ==
  byErrors(detectedErrors, {"Test Failure"}, testPatterns, "TEST", 1, 85)

detectBuildFailure(detectedErrors) ==
  byErrors(detectedErrors, {"Build Failure", "Syntax Error"}, buildPatterns, "BUILD", 2, 80)

detectRuntimeError(detectedErrors) ==
  byErrors(detectedErrors, {"Runtime Error"}, runtimePatterns, "RUNTIME", 3, 75)

detectInfraFailure(detectedErrors) ==
  byErrors(detectedErrors, {"Network Error", "CI Error"}, infraPatterns, "INFRA", 4, 70)

detectSecurityFailure(detectedErrors, chunks) ==
  byErrorsOrChunks(detectedErrors, chunks, securityPatterns, "SECURITY", 5, 75)

detectTimeoutFailure(detectedErrors, chunks) ==
  byErrorsOrChunks(detectedErrors, chunks, timeoutPatterns, "TIMEOUT", 6, 80)

detectDependencyFailure(detectedErrors, chunks) ==
  byErrors(detectedErrors, {"Dependency Issue"}, depPatterns, "DEPENDENCY", 7, 75)

detectConfigFailure(detectedErrors, chunks) ==
  byErrorsOrChunks(detectedErrors, chunks, configPatterns, "CONFIG", 8, 70)

detectPermissionFailure(detectedErrors, chunks) ==
  byErrors(detectedErrors, {}, permPatterns, "PERMISSION", 9, 80)

detectLintIssue(detectedErrors) ==
  LET hit(e) == \/ (e.category = "Error" /\ e.confidence = "medium")
                \/ e.errorMessage \in lintPatterns
  IN IF Len(Filter(detectedErrors, hit)) > 0
     THEN Class("LINT", 10, FALSE, Null, Null, Null, 50)
     ELSE NoClass

\* The detectors in the order classify calls them.
detectors(chunks, detectedErrors) ==
  << detectIntentionalFailure(chunks, detectedErrors),
     detectTestFailure(detectedErrors),
     detectBuildFailure(detectedErrors),
     detectRuntimeError(detectedErrors),
     detectInfraFailure(detectedErrors),
     detectSecurityFailure(detectedErrors, chunks),
     detectTimeoutFailure(detectedErrors, chunks),
     detectDependencyFailure(detectedErrors, chunks),
     detectConfigFailure(detectedErrors, chunks),
     detectPermissionFailure(detectedErrors, chunks),
     detectLintIssue(detectedErrors) >>

\* The default result of classify: no deterministic classification.
unknownClass == Class("UNKNOWN", 99, FALSE, Null, Null, Null, 0)

\* Variant of classify that tries the TEST detector before INTENTIONAL.
classifyTestFirst(chunks, detectedErrors) ==
  LET d == detectors(chunks, detectedErrors)
      isHit(r) == r # NoClass
      first == find(<<d[2], d[1]>> \o SubSeq(d, 3, Len(d)), isHit, NoClass)
  IN IF first # NoClass THEN first ELSE unknownClass

classify(chunks, detectedErrors) ==
  LET isHit(r) == r # NoClass
      first == find(detectors(chunks, detectedErrors), isHit, NoClass)
  IN IF first # NoClass THEN first ELSE unknownClass

(***************************************************************************)
(* Log archives served by the provider for a run: zip entries.             *)
(***************************************************************************)
Entry(marker, txt, lines) == [marker |-> marker, isTxt |-> txt, text |-> lines]

ArchTests ==
  << Entry(LnMarkBuild, TRUE, <<LnBuildCmd, LnBuildOk>>),
     Entry(LnMarkTest, TRUE, <<LnRun, LnBlank, LnAssert>>) >>
ArchExit == << Entry(LnMarkForce, TRUE, <<LnGroup, LnExit, LnEndGroup>>) >>
ArchPlain == << Entry(LnMarkBuild, TRUE, <<LnBuildCmd, LnEchoExit>>) >>
ArchEmpty == << Entry("build/", FALSE, <<>>) >>

Archives == {ArchTests, ArchExit, ArchPlain, ArchEmpty}

\* fullLogText as lines: '\n--- Log File: <entry> ---\n' + text per .txt entry
RECURSIVE entriesText(_)
entriesText(zipEntries) ==
  IF zipEntries = <<>> THEN <<>>
  ELSE (IF Head(zipEntries).isTxt
        THEN <<Head(zipEntries).marker>> \o Head(zipEntries).text
        ELSE <<>>) \o entriesText(Tail(zipEntries))

fullLogText(zipEntries) ==
  IF entriesText(zipEntries) = <<>> THEN <<>> ELSE <<"">> \o entriesText(zipEntries)

parseResult == [a \in Archives |-> parse(fullLogText(a))]

(***************************************************************************)
(* LLM provider responses (generate) and their parse.                      *)
(***************************************************************************)
Json(rc, st, fix) == [rootCause |-> rc, failureStage |-> st, suggestedFix |-> fix]

LLMResponses ==
  { Json("Tests fail on an assertion", "Run tests", "Fix the failing assertion"),
    Json("", "", "") }

Or(a, b) == IF a # "" THEN a ELSE b

\* JSON branch of parseAIResponse; aiText is the response text
parseAIResponse(parsed) ==
  [rootCause |-> Or(parsed.rootCause, "Analysis completed"),
   failureStage |-> Or(parsed.failureStage, "Build/Test"),
   suggestedFix |-> Or(parsed.suggestedFix, "<aiText>")]

getMockResponse ==
  [rootCause |-> "The build failed because the react-scripts package was not found.",
   failureStage |-> "Run npm build",
   suggestedFix |-> "Run npm install to ensure all dependencies are installed."]

(***************************************************************************)
(* State.                                                                  *)
(***************************************************************************)
VARIABLES
  GEMINI_API_KEY,    \* process.env.GEMINI_API_KEY is set
  archiveOf,         \* the log archive the provider serves for each run
  workflowRuns,      \* WorkflowRun table: status by githubRunId, "absent" if no row
  logChunks,         \* LogChunk table: set of rows
  analysisResults,   \* AnalysisResult table: set of rows
  deliveries,        \* webhook deliveries handled so far
  jobs,              \* log-processing queue and worker state, by job
  call,              \* a call of a service method on its own: method and arguments
  ret                \* the value that call returned, NoRet before it returns

vars == <<GEMINI_API_KEY, archiveOf, workflowRuns, logChunks, analysisResults,
          deliveries, jobs, call, ret>>

NoCall == [fn |-> Null]
NoRet == [fn |-> Null]

Conclusions == {"success", "failure", "cancelled"}

NoResult == [rootCause |-> Null]

NoJob ==
  [pc |-> "absent", runId |-> 0, i |-> 0, dbChunk |-> 0, embeddedCount |-> 0,
   storedCount |-> 0, classification |-> NoClass,
   ragRaised |-> FALSE, llmRaised |-> FALSE, analysisResult |-> NoResult,
   trace |-> <<>>, error |-> Null]

Init ==
  /\ GEMINI_API_KEY \in BOOLEAN
  /\ archiveOf \in [Runs -> Archives]
  /\ workflowRuns = [r \in Runs |-> "absent"]
  /\ logChunks = {}
  /\ analysisResults = {}
  /\ deliveries = 0
  /\ jobs = [j \in JobIds |-> NoJob]
  /\ call = NoCall
  /\ ret = NoRet

(***************************************************************************)
(* Webhook controller.                                                     *)
(***************************************************************************)
\* Variant of upsertRun that leaves the status of an existing run alone.
upsertRunKeepStatus(runs, r, conclusion) ==
  IF runs[r] = "absent" THEN [runs EXCEPT ![r] = conclusion] ELSE runs

\* prisma.workflowRun.upsert by githubRunId
upsertRun(runs, r, conclusion) == [runs EXCEPT ![r] = conclusion]

\* logProcessingQueue.add('log-processing', { runId, ... }): a new job
logProcessingQueueAdd(js, r) ==
  LET j == Cardinality({k \in JobIds : js[k].pc # "absent"}) + 1
  IN [js EXCEPT ![j] = [NoJob EXCEPT !.pc = "queued", !.runId = r]]

\* WebhooksController.github for a workflow_run / completed event.  The
\* upsert and the queue add run inside one try whose catch only logs; the
\* handler then answers 200 'Event received' in every case.
Webhook(r, conclusion, installation, upsertOutcome, addOutcome) ==
  /\ deliveries < MaxDeliveries
  /\ deliveries' = deliveries + 1
  /\ workflowRuns' = IF upsertOutcome = "ok"
                     THEN upsertRun(workflowRuns, r, conclusion)
                     ELSE workflowRuns
  /\ jobs' = IF /\ upsertOutcome = "ok"
                /\ conclusion = "failure" /\ installation
                /\ addOutcome = "ok"
             THEN logProcessingQueueAdd(jobs, r)
             ELSE jobs
  /\ UNCHANGED <<call, ret, GEMINI_API_KEY, archiveOf, logChunks, analysisResults>>

(***************************************************************************)
(* Worker processor.  An action is one store access together with the      *)
(* provider calls and local code that run up to the next store access.     *)
(***************************************************************************)
Ev(kind, idx) == <<kind, idx>>

chunksOf(js, j) == parseResult[archiveOf[js[j].runId]].chunks
errorsOf(js, j) == parseResult[archiveOf[js[j].runId]].detectedErrors

\* The processor has returned or thrown: its local variables are gone.
Ended(js, j, pc) ==
  [js EXCEPT ![j] = [NoJob EXCEPT !.pc = pc, !.runId = js[j].runId,
                                  !.trace = js[j].trace]]

\* catch (error) { throw error }: the job fails
Fail(js, j, msg) == [Ended(js, j, "failed") EXCEPT ![j].error = msg]

Log(js, j, kind, idx) == [js EXCEPT ![j].trace = Append(@, Ev(kind, idx))]

Active(j) == jobs[j].pc \notin {"absent", "queued", "completed", "failed"}

\* A free worker executor takes the job from the queue.
StartJob(j, workers) ==
  /\ jobs[j].pc = "queued"
  /\ Cardinality({k \in JobIds : Active(k)}) < workers
  /\ jobs' = [jobs EXCEPT ![j].pc = "download"]
  /\ UNCHANGED <<call, ret, GEMINI_API_KEY, archiveOf, workflowRuns, logChunks,
                 analysisResults, deliveries>>

\* Authenticate, download and unzip the archive, parse the log, then
\* prisma.workflowRun.findUnique; a missing run ends the job without writes.
Download(j, outcome) ==
  /\ jobs[j].pc = "download"
  /\ jobs' = IF outcome = "error" THEN Fail(jobs, j, "transport error")
             ELSE IF fullLogText(archiveOf[jobs[j].runId]) = <<>>
             THEN Fail(jobs, j, "No .txt log files found in the downloaded zip.")
             ELSE IF workflowRuns[jobs[j].runId] = "absent"
             THEN Ended(jobs, j, "completed")
             ELSE [jobs EXCEPT ![j].pc = "deleteMany"]
  /\ UNCHANGED <<call, ret, GEMINI_API_KEY, archiveOf, workflowRuns, logChunks,
                 analysisResults, deliveries>>

\* Variant of deleteMany that leaves the old chunks in place.
deleteManyNothing(rows, r) == rows

\* prisma.logChunk.deleteMany({ where: { workflowRunId } })
deleteMany(rows, r) == {c \in rows : c.workflowRunId # r}

DeleteMany(j) ==
  /\ jobs[j].pc = "deleteMany"
  /\ logChunks' = deleteMany(logChunks, jobs[j].runId)
  /\ jobs' = [Log(jobs, j, "deleteMany", -1) EXCEPT ![j].pc = "create", ![j].i = 0]
  /\ UNCHANGED <<call, ret, GEMINI_API_KEY, archiveOf, workflowRuns, analysisResults, deliveries>>

\* SERIAL id of a LogChunk row: a value unique to the insert
newChunkId(j, idx) == j * 100 + idx

\* data of prisma.logChunk.create; the embedding column starts null
chunkData(id, r, chunk) ==
  [id |-> id, workflowRunId |-> r, chunkIndex |-> chunk.chunkIndex,
   stepName |-> chunk.stepName, content |-> chunk.content,
   startLine |-> chunk.startLine, endLine |-> chunk.endLine,
   tokenCount |-> chunk.tokenCount, hasErrors |-> chunk.hasErrors,
   errorCount |-> chunk.errorCount, embedding |-> Null]

\* LogChunk_workflowRunId_chunkIndex_key
uniqueViolation(rows, r, idx) ==
  \E c \in rows : c.workflowRunId = r /\ c.chunkIndex = idx

\* Variant of afterCreate that starts embedding after the first insert.
afterCreateEarly(i, n) == "generateEmbedding"

\* Position after the insert of chunk i (0-based) out of n.
afterCreate(i, n) == IF i + 1 < n THEN "create" ELSE "generateEmbedding"

\* new EmbeddingService(): throws when the API key is not configured.
newEmbeddingService(js, j, key) ==
  IF js[j].pc = "generateEmbedding" /\ ~key
  THEN Fail(js, j, "GEMINI_API_KEY is required for embedding generation")
  ELSE js

\* One iteration of the create loop; after the last one the embedding
\* service is constructed.
Create(j, outcome) ==
  LET r == jobs[j].runId
      i == jobs[j].i
      n == Len(chunksOf(jobs, j))
      chunk == chunksOf(jobs, j)[i + 1]
      created == [Log(jobs, j, "create", chunk.chunkIndex) EXCEPT
                    ![j].pc = afterCreate(i, n),
                    ![j].i = IF i + 1 < n THEN i + 1 ELSE 0]
  IN /\ jobs[j].pc = "create"
     /\ IF outcome = "error"
        THEN /\ jobs' = Fail(jobs, j, "database error")
             /\ UNCHANGED logChunks
        ELSE IF uniqueViolation(logChunks, r, chunk.chunkIndex)
        THEN /\ jobs' = Fail(jobs, j, "Unique constraint failed")
             /\ UNCHANGED logChunks
        ELSE /\ logChunks' = logChunks \cup {chunkData(newChunkId(j, chunk.chunkIndex), r, chunk)}
             /\ jobs' = newEmbeddingService(created, j, GEMINI_API_KEY)
     /\ UNCHANGED <<call, ret, GEMINI_API_KEY, archiveOf, workflowRuns, analysisResults, deliveries>>

\* JavaScript a || b on strings and undefined
OrJs(a, b) == IF a \in {"", Null} THEN b ELSE a

\* Position after the embedding attempt of chunk i (0-based) out of n.
afterEmbed(i, n) == IF i + 1 < n THEN "generateEmbedding" ELSE "classify"

\* End of one iteration of the embedding loop.
nextEmbed(js, j, i, n) ==
  [Log(js, j, "embedEnd", i) EXCEPT
     ![j].pc = afterEmbed(i, n),
     ![j].i = IF i + 1 < n THEN i + 1 ELSE 0,
     ![j].dbChunk = 0]

\* prisma.logChunk.findUnique by (workflowRunId, chunkIndex): row id, 0 if none
findUnique(rows, r, idx) ==
  LET hit == {c \in rows : c.workflowRunId = r /\ c.chunkIndex = idx}
  IN IF hit = {} THEN 0 ELSE (CHOOSE c \in hit : TRUE).id

\* embeddingService.generateEmbedding(chunk.content), then findUnique.
GenerateEmbedding(j, outcome) ==
  LET r == jobs[j].runId
      i == jobs[j].i
      n == Len(chunksOf(jobs, j))
      chunk == chunksOf(jobs, j)[i + 1]
      started == Log(jobs, j, "embed", chunk.chunkIndex)
      dbChunk == findUnique(logChunks, r, chunk.chunkIndex)
  IN /\ jobs[j].pc = "generateEmbedding"
     /\ jobs' = IF outcome = "error" \/ dbChunk = 0
                THEN nextEmbed(started, j, i, n)
                ELSE [started EXCEPT ![j].pc = "updateChunkEmbedding",
                                     ![j].dbChunk = dbChunk]
     /\ UNCHANGED <<call, ret, GEMINI_API_KEY, archiveOf, workflowRuns, logChunks,
                    analysisResults, deliveries>>

\* UPDATE "LogChunk" SET embedding = ... WHERE id = chunkId
updateChunkEmbedding(rows, chunkId) ==
  {IF c.id = chunkId THEN [c EXCEPT !.embedding = "vector"] ELSE c : c \in rows}

\* vectorSearch.updateChunkEmbedding(dbChunk.id, embedding); embeddedCount++
UpdateChunkEmbedding(j, outcome) ==
  LET i == jobs[j].i
      n == Len(chunksOf(jobs, j))
      affected == Cardinality({c \in logChunks : c.id = jobs[j].dbChunk})
      counted == [jobs EXCEPT ![j].embeddedCount = @ + 1,
                              ![j].storedCount = @ + affected]
  IN /\ jobs[j].pc = "updateChunkEmbedding"
     /\ IF outcome = "error"
        THEN /\ jobs' = nextEmbed(jobs, j, i, n)
             /\ UNCHANGED logChunks
        ELSE /\ logChunks' = updateChunkEmbedding(logChunks, jobs[j].dbChunk)
             /\ jobs' = nextEmbed(counted, j, i, n)
     /\ UNCHANGED <<call, ret, GEMINI_API_KEY, archiveOf, workflowRuns, analysisResults, deliveries>>

\* The embedding loop is over (embeddedCount is reported); deterministic
\* classification and the skipAI decision (worker steps 6 and 7).
Classify(j) ==
  LET classification == classify(chunksOf(jobs, j), errorsOf(jobs, j))
      classified == [Log(jobs, j, "classify", -1) EXCEPT
                       ![j].classification = classification,
                       ![j].embeddedCount = 0,
                       ![j].storedCount = 0]
  IN /\ jobs[j].pc = "classify"
     /\ jobs' = IF classification.skipAI
                THEN [classified EXCEPT
                        ![j].pc = "upsert",
                        ![j].analysisResult =
                           [rootCause |-> classification.rootCause,
                            failureStage |-> classification.failureStage,
                            suggestedFix |-> classification.suggestedFix,
                            usedRAG |-> Null,
                            usedAI |-> FALSE,
                            classification |-> classification.failureType,
                            priority |-> classification.priority]]
                ELSE [classified EXCEPT ![j].pc = "analyzeFailure"]
     /\ UNCHANGED <<call, ret, GEMINI_API_KEY, archiveOf, workflowRuns, logChunks,
                    analysisResults, deliveries>>

\* Program constant: default maxResults of retrieveContext.
RAG_MAX_CASES == 3

getEmptyContext == [hasSimilarCases |-> FALSE, similarCases |-> 0]

\* The rows the inner SELECT of findSimilarWithAnalysis ranges over: error
\* chunks with an embedding, of any workflow run.
similarRows(rows) == {c \in rows : c.embedding # Null /\ c.hasErrors}

\* Number of rows findSimilarWithAnalysis returns: the nearest rows, at most limit.
findSimilarWithAnalysis(rows, limit) ==
  Min(limit, Cardinality(similarRows(rows)))

\* extractContext: hasSimilarCases from the raw rows, similarCases the admitted ones
extractContext(found, admitted) ==
  [hasSimilarCases |-> found > 0, similarCases |-> admitted]

\* ragService.retrieveContext: its errors are caught and give the empty context
retrieveContext(rows, outcome, admitted) ==
  IF outcome = "error" THEN getEmptyContext
  ELSE extractContext(findSimilarWithAnalysis(rows, RAG_MAX_CASES), admitted)

\* Variant of analyzeFailure without the mock fallback on an LLM error.
analyzeFailureNoFallback(outcome, response, ragContext) ==
  IF outcome = "error"
  THEN [rootCause |-> "", failureStage |-> "", suggestedFix |-> "", usedRAG |-> Null]
  ELSE parseAIResponse(response) @@ [usedRAG |-> ragContext.hasSimilarCases]

\* Result of analyzeFailure given the outcome of model.generateContent.
analyzeFailure(outcome, response, ragContext) ==
  IF outcome = "error"
  THEN getMockResponse @@ [usedRAG |-> Null]
  ELSE parseAIResponse(response) @@ [usedRAG |-> ragContext.hasSimilarCases]

\* aiAnalyzer.analyzeFailure: RAG retrieval (vector search), then the LLM call.
\* cases are the returned rows whose similarity is at least 0.6.
AnalyzeFailure(j, ragOutcome, cases, llmOutcome, response) ==
  LET admitted == Cardinality(cases)
      ragContext == retrieveContext(logChunks, ragOutcome, admitted)
      aiResult == analyzeFailure(llmOutcome, response, ragContext)
  IN /\ jobs[j].pc = "analyzeFailure"
     /\ cases \subseteq similarRows(logChunks)
     /\ admitted <= findSimilarWithAnalysis(logChunks, RAG_MAX_CASES)
     /\ ragOutcome = "error" => admitted = 0
     /\ llmOutcome = "error" => response = CHOOSE x \in LLMResponses : TRUE
     /\ jobs' = [Log(jobs, j, "analyze", -1) EXCEPT
                   ![j].pc = "upsert",
                   ![j].ragRaised = (ragOutcome = "error"),
                   ![j].llmRaised = (llmOutcome = "error"),
                   ![j].analysisResult =
                      aiResult @@ [usedAI |-> TRUE,
                                   classification |-> jobs[j].classification.failureType,
                                   priority |-> jobs[j].classification.priority]]
     /\ UNCHANGED <<call, ret, GEMINI_API_KEY, archiveOf, workflowRuns, logChunks,
                    analysisResults, deliveries>>

\* Variant of resultData that stores usedAI true for every result.
resultDataAlwaysAI(id, r, ar) ==
  [id |-> id, workflowRunId |-> r, rootCause |-> ar.rootCause,
   failureStage |-> OrJs(ar.failureStage, "Unknown"),
   suggestedFix |-> ar.suggestedFix, priority |-> ar.priority,
   failureType |-> ar.classification, usedAI |-> TRUE]

\* data of prisma.analysisResult.upsert (create and update carry the same fields)
resultData(id, r, ar) ==
  [id |-> id, workflowRunId |-> r, rootCause |-> ar.rootCause,
   failureStage |-> OrJs(ar.failureStage, "Unknown"),
   suggestedFix |-> ar.suggestedFix, priority |-> ar.priority,
   failureType |-> ar.classification, usedAI |-> (ar.usedAI # FALSE)]

\* Variant of upsert that always creates a row.
upsertAlwaysCreate(rows, id, r, ar) == rows \cup {resultData(id, r, ar)}

\* prisma.analysisResult.upsert({ where: { workflowRunId } }); id is the
\* SERIAL id used when a row is created
upsert(rows, id, r, ar) ==
  IF \E x \in rows : x.workflowRunId = r
  THEN {IF x.workflowRunId = r THEN resultData(x.id, r, ar) ELSE x : x \in rows}
  ELSE rows \cup {resultData(id, r, ar)}

\* Save the analysis result; the job completes.
Upsert(j, outcome) ==
  LET r == jobs[j].runId
  IN /\ jobs[j].pc = "upsert"
     /\ IF outcome = "error"
        THEN /\ jobs' = Fail(jobs, j, "database error")
             /\ UNCHANGED analysisResults
        ELSE /\ analysisResults' = upsert(analysisResults, j, r, jobs[j].analysisResult)
             /\ jobs' = Ended(Log(jobs, j, "upsert", -1), j, "completed")
     /\ UNCHANGED <<call, ret, GEMINI_API_KEY, archiveOf, workflowRuns, logChunks, deliveries>>

Outcomes == {"ok", "error"}

WorkerStep(j) ==
  \/ \E o \in Outcomes : Download(j, o)
  \/ DeleteMany(j)
  \/ \E o \in Outcomes : Create(j, o)
  \/ \E o \in Outcomes : GenerateEmbedding(j, o)
  \/ \E o \in Outcomes : UpdateChunkEmbedding(j, o)
  \/ Classify(j)
  \/ \E ro \in Outcomes, cases \in SUBSET similarRows(logChunks),
          lo \in Outcomes, resp \in LLMResponses :
        AnalyzeFailure(j, ro, cases, lo, resp)
  \/ \E o \in Outcomes : Upsert(j, o)

Delivery ==
  \E r \in Runs, c \in Conclusions, inst \in BOOLEAN, uo \in Outcomes, ao \in Outcomes :
    Webhook(r, c, inst, uo, ao)

\* A pool of MaxWorkers worker executors processes jobs in parallel.
Next ==
  \/ Delivery
  \/ \E j \in JobIds : StartJob(j, MaxWorkers)
  \/ \E j \in JobIds : WorkerStep(j)

Spec == Init /\ [][Next]_vars

\* A single worker with the default concurrency of 1: one job at a time.
NextSeq ==
  \/ Delivery
  \/ \E j \in JobIds : StartJob(j, 1)
  \/ \E j \in JobIds : WorkerStep(j)

SeqSpec == Init /\ [][NextSeq]_vars

\* The queue hands over every queued job and the worker keeps running.
FairSpec ==
  Spec /\ WF_vars(\E j \in JobIds : StartJob(j, MaxWorkers))
       /\ WF_vars(\E j \in JobIds : WorkerStep(j))

(***************************************************************************)
(* Service methods called on their own: the arguments are drawn from        *)
(* bounded sets, one action per method returns its value.                  *)
(***************************************************************************)
SeqsUpTo(S, n) == UNION {[1..k -> S] : k \in 0..n}

\* Raw log lines given to parse.
LogLines ==
  {LnAssert, LnExit, LnNpmMissing, LnBuildFailed, LnTypeError, LnEconn, LnVuln,
   LnTimeout, LnEnv, LnPerm, LnGenericError, LnEchoExit, LnGroup}

\* Raw log lines that shape the steps: file markers, group markers, a
\* carriage-return progress line and error lines.
StepLines ==
  {LnMarkBuild, LnMarkForce, LnGroupExit, LnEndGroup, LnExit, LnProgressRaw,
   LnAssert}

Logs == SeqsUpTo(LogLines, MaxLogLines) \cup SeqsUpTo(StepLines, MaxStepLines)

\* Raw lines given to cleanLog on its own.
RawLines ==
  {LnBuildCmd, LnBuildOk, LnDoubleTs, LnProgressRaw, LnSpinRaw, LnBlank, LnExit}

RawLogs == SeqsUpTo(RawLines, MaxRawLines)

\* Steps given to createChunks on their own: a step of n lines that starts
\* at line s of the log, with an error line at position mark of the step.
StepLengths == {1, 999, 1000, 1001, 2000, 2001}
StepStarts == {0, 1}
StepMarks == {1, 1000, 1001}
StepNames == {"Build", "Run tests"}

StepLog(n, s, mark) ==
  [k \in 1..(s + n) |->
     IF k <= s THEN LnBuildOkClean
     ELSE IF k - s = mark THEN LnAssert ELSE LnBuildCmd]

\* Similarities (1 - cosine distance, in percent) of the rows the vector
\* search returns, nearest first, at most RAG_MAX_CASES of them.
Similarities == {55, 60, 70, 80, 90}

CaseLists ==
  {c \in SeqsUpTo(Similarities, RAG_MAX_CASES) :
     \A k \in 1..(Len(c) - 1) : c[k] >= c[k + 1]}

\* extractContext on the rows of the vector search: only cases with a
\* similarity of at least 0.6 are kept, hasSimilarCases is taken from the rows.
extractSimilarCases(similarCases) ==
  LET admitted(sim) == ~(sim < 60)
  IN [hasSimilarCases |-> Len(similarCases) > 0,
      similarCases |-> SelectSeq(similarCases, admitted)]

\* ragService.assessConfidence, score in percent
assessConfidence(context) ==
  IF ~context.hasSimilarCases \/ Len(context.similarCases) = 0 THEN 50
  ELSE LET topSimilarity == context.similarCases[1]
           caseCount == Len(context.similarCases)
       IN IF topSimilarity >= 90 /\ caseCount >= 2 THEN 95
          ELSE IF topSimilarity >= 80 THEN 85
          ELSE IF topSimilarity >= 70 THEN 75
          ELSE 60

\* analyzeFailure: the confidence attached to a parsed LLM response
attachConfidence(ragContext) ==
  IF ragContext.hasSimilarCases THEN assessConfidence(ragContext) ELSE 50

(***************************************************************************)
(* LLM response text.  aiText is the sequence of its lines; the regular     *)
(* expressions and includes() tests are the sets of lines they match.      *)
(***************************************************************************)
TxIntro == "Here is my analysis:"
TxObject ==
  "{\"rootCause\":\"Flaky test\",\"failureStage\":\"Run tests\",\"suggestedFix\":\"Retry\"}"
TxBraces == "Replace {name} with your package."
TxClose == "}"
TxRoot == "Root cause:"
TxStep == "Step: Run tests"

TextLines == {TxIntro, TxObject, TxBraces, TxClose, TxRoot, TxStep}

AiTexts == SeqsUpTo(TextLines, MaxTextLines)

\* Lines holding a '{' and lines holding a '}' (in each, '{' comes first).
hasOpen == {TxObject, TxBraces}
hasClose == {TxObject, TxBraces, TxClose}

\* JSON.parse of a span that is exactly one of these lines; any other
\* span throws.
JSONparse == [l \in {TxObject} |-> Json("Flaky test", "Run tests", "Retry")]

\* line.toLowerCase().includes(...) for the three groups of words
rootWords == {TxRoot}
stageWords == {TxObject, TxStep}
fixWords == {TxObject}

RECURSIVE joinText(_)
joinText(lines) ==
  IF lines = <<>> THEN ""
  ELSE IF Len(lines) = 1 THEN Head(lines)
  ELSE Head(lines) \o "\n" \o joinText(Tail(lines))

\* lines[i + 1] || lines[i], i from 1
nextOrThis(lines, i) == IF i < Len(lines) THEN lines[i + 1] ELSE lines[i]

\* The text extraction loop of parseAIResponse.
RECURSIVE extractLoop(_, _, _)
extractLoop(lines, i, acc) ==
  IF i > Len(lines) THEN acc
  ELSE extractLoop(lines, i + 1,
         [rootCause |-> IF lines[i] \in rootWords THEN nextOrThis(lines, i)
                        ELSE acc.rootCause,
          failureStage |-> IF lines[i] \in stageWords THEN nextOrThis(lines, i)
                           ELSE acc.failureStage,
          suggestedFix |-> IF lines[i] \in fixWords
                           THEN joinText(SubSeq(lines, i, Len(lines)))
                           ELSE acc.suggestedFix])

extractFromText(aiText) ==
  extractLoop(aiText, 1, [rootCause |-> "Unable to determine root cause",
                          failureStage |-> "Build/Test",
                          suggestedFix |-> joinText(aiText)])

\* aiText.match(/\{[\s\S]*\}/): the lines of the first '{' and of the last
\* '}' of the text, <<>> if there is no match.
matchBraces(aiText) ==
  LET opens == {k \in 1..Len(aiText) : aiText[k] \in hasOpen}
      closes == {k \in 1..Len(aiText) : aiText[k] \in hasClose}
  IN IF opens = {} THEN <<>>
     ELSE LET first == CHOOSE k \in opens : \A m \in opens : k <= m
              last == CHOOSE k \in closes : \A m \in closes : m <= k
          IN <<first, last>>

\* parseAIResponse(aiText): the JSON branch when the matched span parses,
\* the text extraction otherwise.
parseAIResponseText(aiText) ==
  LET jsonMatch == matchBraces(aiText)
  IN IF jsonMatch # <<>> /\ jsonMatch[1] = jsonMatch[2]
        /\ aiText[jsonMatch[1]] \in DOMAIN JSONparse
     THEN parseAIResponse(JSONparse[aiText[jsonMatch[1]]])
     ELSE extractFromText(aiText)

(***************************************************************************)
(* Category names of the LLM fallback classification, as sequences of      *)
(* characters.                                                             *)
(***************************************************************************)
Chars == {"a", "B", "7", " ", "-", "_"}
AlphaNum == {"A", "B", "7"}
UNKNOWN == <<"U", "N", "K", "N", "O", "W", "N">>

FailureTypes == SeqsUpTo(Chars, MaxCategoryLen)

toUpperCase(str) == [k \in 1..Len(str) |-> IF str[k] = "a" THEN "A" ELSE str[k]]

RECURSIVE trimStart(_)
trimStart(str) ==
  IF str # <<>> /\ Head(str) = " " THEN trimStart(Tail(str)) ELSE str

RECURSIVE trimEnd(_)
trimEnd(str) ==
  IF str # <<>> /\ str[Len(str)] = " "
  THEN trimEnd(SubSeq(str, 1, Len(str) - 1)) ELSE str

trim(str) == trimEnd(trimStart(str))

\* str.replace(/\s+/g, '_')
RECURSIVE replaceSpaces(_)
replaceSpaces(str) ==
  IF str = <<>> THEN <<>>
  ELSE IF Head(str) = " " THEN <<"_">> \o replaceSpaces(trimStart(str))
  ELSE <<Head(str)>> \o replaceSpaces(Tail(str))

\* str.replace(/[^A-Z0-9_]/g, '')
removeOthers(str) ==
  LET keep(c) == c \in AlphaNum \cup {"_"} IN SelectSeq(str, keep)

\* Variant of normalizeFailureType that puts an underscore for every
\* character that is not alphanumeric.
normalizeWithUnderscores(present, failureType) ==
  IF ~present \/ failureType = <<>> THEN UNKNOWN
  ELSE [k \in 1..Len(failureType) |->
          IF toUpperCase(failureType)[k] \in AlphaNum
          THEN toUpperCase(failureType)[k] ELSE "_"]

\* classifyWithAI: (parsed.failureType || 'UNKNOWN') normalized; present is
\* false when the response has no failureType.
normalizeFailureType(present, failureType) ==
  LET given == IF ~present \/ failureType = <<>> THEN UNKNOWN ELSE failureType
      normalized == removeOthers(replaceSpaces(trim(toUpperCase(given))))
  IN IF normalized = <<>> THEN UNKNOWN ELSE normalized

\* The prompt as its sections; constructPrompt gives the base section.
basePrompt == <<[section |-> "BASE", cases |-> <<>>]>>

\* ragService.buildEnhancedPrompt
buildEnhancedPrompt(prompt, context) ==
  IF ~context.hasSimilarCases THEN prompt
  ELSE prompt \o <<[section |-> "HISTORICAL CONTEXT",
                    cases |-> context.similarCases]>>

\* analyzeFailure: the prompt sent to the LLM
promptFor(ragContext) ==
  IF ragContext.hasSimilarCases THEN buildEnhancedPrompt(basePrompt, ragContext)
  ELSE basePrompt

Calls ==
  {[fn |-> "classify", rawLog |-> l] : l \in Logs}
  \cup {[fn |-> "assessConfidence", similarCases |-> c] : c \in CaseLists}
  \cup {[fn |-> "cleanLog", rawLog |-> l] : l \in RawLogs}
  \cup {[fn |-> "createChunks", name |-> n, length |-> len, startLine |-> s,
          mark |-> m] :
          n \in StepNames, len \in StepLengths, s \in StepStarts, m \in StepMarks}
  \cup {[fn |-> "parseAIResponse", aiText |-> t] : t \in AiTexts}
  \cup {[fn |-> "classifyWithAI", present |-> TRUE, failureType |-> t] :
          t \in FailureTypes}
  \cup {[fn |-> "classifyWithAI", present |-> FALSE, failureType |-> <<>>]}

FnInit ==
  /\ call \in Calls
  /\ ret = NoRet
  /\ GEMINI_API_KEY = TRUE
  /\ archiveOf = [r \in Runs |-> ArchEmpty]
  /\ workflowRuns = [r \in Runs |-> "absent"]
  /\ logChunks = {}
  /\ analysisResults = {}
  /\ deliveries = 0
  /\ jobs = [j \in JobIds |-> NoJob]

\* logParser.parse(rawLog), then classifier.classify(chunks, detectedErrors)
ClassifyLog ==
  /\ call.fn = "classify" /\ ret = NoRet
  /\ LET parsed == parse(call.rawLog)
         cleanedLines == cleanLog(call.rawLog)
     IN ret' = [fn |-> "classify", lines |-> cleanedLines,
                steps |-> detectSteps(cleanedLines),
                chunks |-> parsed.chunks,
                detectedErrors |-> parsed.detectedErrors,
                classification |-> classify(parsed.chunks, parsed.detectedErrors)]
  /\ UNCHANGED <<call, GEMINI_API_KEY, archiveOf, workflowRuns, logChunks,
                 analysisResults, deliveries, jobs>>

\* ragService.extractContext(rows), then the confidence analyzeFailure attaches
AssessConfidence ==
  /\ call.fn = "assessConfidence" /\ ret = NoRet
  /\ LET context == extractSimilarCases(call.similarCases)
     IN ret' = [fn |-> "assessConfidence", context |-> context,
                prompt |-> promptFor(context),
                usedRAG |-> context.hasSimilarCases,
                confidence |-> attachConfidence(context)]
  /\ UNCHANGED <<call, GEMINI_API_KEY, archiveOf, workflowRuns, logChunks,
                 analysisResults, deliveries, jobs>>

\* cleanLog(rawLog), then cleanLog again on the text it produced
CleanLogTwice ==
  /\ call.fn = "cleanLog" /\ ret = NoRet
  /\ LET once == cleanLog(call.rawLog)
     IN ret' = [fn |-> "cleanLog", once |-> join(once),
                twice |-> join(cleanLog(split(join(once))))]
  /\ UNCHANGED <<call, GEMINI_API_KEY, archiveOf, workflowRuns, logChunks,
                 analysisResults, deliveries, jobs>>

\* createChunks([step], lines) for one step of call.length lines
CreateChunks ==
  /\ call.fn = "createChunks" /\ ret = NoRet
  /\ LET lines == StepLog(call.length, call.startLine, call.mark)
         step == [name |-> call.name, startLine |-> call.startLine,
                  endLine |-> call.startLine + call.length - 1,
                  isFromLogFile |-> TRUE]
     IN ret' = [fn |-> "createChunks", step |-> step,
                stepLines |-> SubSeq(lines, step.startLine + 1, step.endLine + 1),
                chunks |-> createChunks(<<step>>, lines)]
  /\ UNCHANGED <<call, GEMINI_API_KEY, archiveOf, workflowRuns, logChunks,
                 analysisResults, deliveries, jobs>>

\* aiAnalyzer.parseAIResponse(aiText)
ParseAIResponse ==
  /\ call.fn = "parseAIResponse" /\ ret = NoRet
  /\ ret' = [fn |-> "parseAIResponse", value |-> parseAIResponseText(call.aiText)]
  /\ UNCHANGED <<call, GEMINI_API_KEY, archiveOf, workflowRuns, logChunks,
                 analysisResults, deliveries, jobs>>

\* ragService.classifyWithAI on a parsed response: the category it returns
ClassifyWithAI ==
  /\ call.fn = "classifyWithAI" /\ ret = NoRet
  /\ ret' = [fn |-> "classifyWithAI",
             failureType |-> normalizeFailureType(call.present, call.failureType)]
  /\ UNCHANGED <<call, GEMINI_API_KEY, archiveOf, workflowRuns, logChunks,
                 analysisResults, deliveries, jobs>>

FnNext ==
  \/ ClassifyWithAI
  \/ ClassifyLog
  \/ AssessConfidence
  \/ CleanLogTwice
  \/ CreateChunks
  \/ ParseAIResponse

FnSpec == FnInit /\ [][FnNext]_vars

(***************************************************************************)
(* Properties.                                                             *)
(***************************************************************************)
JobsOf(r) == {j \in JobIds : jobs[j].pc # "absent" /\ jobs[j].runId = r}

RunChunks(r) == {c \in logChunks : c.workflowRunId = r}
RunResults(r) == {x \in analysisResults : x.workflowRunId = r}

\* The chunks stored for a run, without auto ids and embeddings.
ChunkView(rows, r) ==
  {[c EXCEPT !.id = 0, !.embedding = Null] : c \in {x \in rows : x.workflowRunId = r}}

\* The chunk set one complete job leaves for the run.
Expected(r) ==
  LET chunks == parseResult[archiveOf[r]].chunks
  IN {chunkData(0, r, chunks[k]) : k \in 1..Len(chunks)}

HasEv(j, kind) == \E k \in 1..Len(jobs[j].trace) : jobs[j].trace[k][1] = kind

Succeeded(j) == jobs[j].pc = "completed" /\ HasEv(j, "upsert")

UniqueFailed(j) == jobs[j].pc = "failed" /\ jobs[j].error = "Unique constraint failed"

\* C1: the store never holds more than one AnalysisResult for a run, and
\* holds exactly one once a job for the run has completed successfully.
C1_OneResultPerRun ==
  \A r \in Runs :
    /\ Cardinality(RunResults(r)) <= 1
    /\ (\E j \in JobsOf(r) : Succeeded(j)) => Cardinality(RunResults(r)) = 1

\* Two jobs for one run have both completed and one result is stored.
C1_Witness ==
  \E r \in Runs : \E j1, j2 \in JobsOf(r) :
    j1 # j2 /\ Succeeded(j1) /\ Succeeded(j2) /\ Cardinality(RunResults(r)) = 1

\* C2: every run recorded by a completed workflow_run webhook eventually has
\* exactly one AnalysisResult.
C2_EventuallyAnalyzed ==
  \A r \in Runs :
    [](workflowRuns[r] \in Conclusions => <>(Cardinality(RunResults(r)) = 1))

\* C3: while two jobs for a run are in progress and none has failed, the
\* chunk set of the run is a complete set written by one job or the complete
\* prior set (empty only as long as no job has inserted a chunk).
C3_AtomicReplace ==
  \A r \in Runs :
    ( /\ \E j1, j2 \in JobsOf(r) : j1 # j2 /\ Active(j1) /\ Active(j2)
      /\ \A j \in JobsOf(r) : jobs[j].pc # "failed" )
    => \/ ChunkView(logChunks, r) = Expected(r)
       \/ /\ ChunkView(logChunks, r) = {}
          /\ \A j \in JobsOf(r) : ~HasEv(j, "create")

\* C4: no job fails on the (run, index) uniqueness constraint, and once two
\* jobs for a run have completed the chunk set and the AnalysisResult are
\* those of a single job.
C4_DuplicateHarmless ==
  /\ \A j \in JobIds : ~UniqueFailed(j)
  /\ \A r \in Runs :
       (\E j1, j2 \in JobsOf(r) : j1 # j2 /\ Succeeded(j1) /\ Succeeded(j2))
       => ChunkView(logChunks, r) = Expected(r) /\ Cardinality(RunResults(r)) = 1

PostCreate ==
  {"generateEmbedding", "updateChunkEmbedding", "classify", "analyzeFailure", "upsert"}

\* C5: with jobs processed one after another, a job that has finished its
\* inserts has left the chunk set of its run equal to the set of a first
\* run (modulo ids), it still is when the job completes, and no re-run fails
\* on the chunks an earlier job left behind.
C5_RerunIdempotent ==
  /\ [](\A j \in JobIds :
          /\ jobs[j].pc \in PostCreate
             => ChunkView(logChunks, jobs[j].runId) = Expected(jobs[j].runId)
          /\ ~UniqueFailed(j))
  /\ [][\A j \in JobIds :
          (jobs[j].pc = "upsert" /\ jobs'[j].pc = "completed")
          => ChunkView(logChunks', jobs[j].runId) = Expected(jobs[j].runId)]_vars

\* A job failed after inserting only the first chunk and a later job of the
\* same run completed with the full chunk set.
C5_Witness ==
  \E r \in Runs : \E j1, j2 \in JobsOf(r) :
    /\ jobs[j1].pc = "failed" /\ jobs[j1].error = "database error"
    /\ HasEv(j1, "create") /\ ~HasEv(j1, "embed")
    /\ Succeeded(j2)
    /\ Len(parseResult[archiveOf[r]].chunks) > 1
    /\ ChunkView(logChunks, r) = Expected(r)

\* C6: when no job for a run is mid-execution, the chunk indices stored for
\* the run are exactly 0..N-1.
C6_DenseWhenQuiescent ==
  \A r \in Runs :
    (\A j \in JobsOf(r) : ~Active(j))
    => {c.chunkIndex : c \in RunChunks(r)} = 0..(Cardinality(RunChunks(r)) - 1)

NChunks(j) == Len(parseResult[archiveOf[jobs[j].runId]].chunks)

\* Positions of the events of one kind in a job's trace.
Pos(j, kind) == {k \in 1..Len(jobs[j].trace) : jobs[j].trace[k][1] = kind}

\* C7: within one job every chunk is inserted before the first embedding
\* request, every embedding attempt has finished before classification,
\* classification precedes the analyzer, and the AnalysisResult upsert is the
\* last store write.
C7_StageOrder ==
  \A j \in JobIds :
    LET t == jobs[j].trace
        Before(k, ev) == \E a \in 1..(k - 1) : t[a] = ev
    IN /\ \A k \in Pos(j, "embed") :
            /\ \A idx \in 0..(NChunks(j) - 1) : Before(k, Ev("create", idx))
            /\ \A b \in Pos(j, "create") \cup Pos(j, "deleteMany") : b < k
       /\ \A k \in Pos(j, "classify") :
            /\ \A idx \in 0..(NChunks(j) - 1) :
                 Before(k, Ev("embed", idx)) /\ Before(k, Ev("embedEnd", idx))
            /\ \A b \in Pos(j, "embed") \cup Pos(j, "embedEnd") : b < k
       /\ \A k \in Pos(j, "analyze") : \E a \in Pos(j, "classify") : a < k
       /\ \A k \in Pos(j, "upsert") :
            /\ k = Len(t)
            /\ \E a \in Pos(j, "classify") : a < k
       /\ Succeeded(j) => t[Len(t)][1] = "upsert"

\* A job with two chunks went through every stage, the analyzer included.
C7_Witness ==
  \E j \in JobIds :
    Succeeded(j) /\ HasEv(j, "analyze") /\ NChunks(j) > 1

EmbeddingErrors == {"GEMINI_API_KEY is required for embedding generation"}

\* C8: no failure of the embedding provider fails the job.
C8_EmbeddingNeverFailsJob ==
  \A j \in JobIds : jobs[j].pc = "failed" => jobs[j].error \notin EmbeddingErrors

\* C9: embedding is attempted for the chunks in index order whatever the
\* earlier attempts did, and the embedded count a job reports equals the
\* number of chunks whose embedding it stored.
C9_EmbeddedCountIsStored ==
  \A j \in JobIds :
    /\ \A k \in Pos(j, "embed") :
         jobs[j].trace[k][2] = Cardinality({a \in Pos(j, "embed") : a < k})
    /\ jobs[j].embeddedCount = jobs[j].storedCount

Narrative(ar) ==
  [rootCause |-> ar.rootCause, failureStage |-> ar.failureStage,
   suggestedFix |-> ar.suggestedFix]

NonEmpty(x) ==
  x.rootCause # "" /\ x.failureStage # "" /\ x.suggestedFix # ""

\* C10 as stated: whenever RAG retrieval or the LLM call raised, the
\* analyzer returned the fixed fallback narrative.
C10_FallbackOnAnyFailure ==
  \A j \in JobIds :
    (jobs[j].pc = "upsert" /\ (jobs[j].ragRaised \/ jobs[j].llmRaised))
    => Narrative(jobs[j].analysisResult) = getMockResponse

\* C10: when the LLM call raised, the analyzer returned the fixed fallback
\* narrative and the job upserts an AnalysisResult with that narrative, all
\* three fields non-empty; when only RAG retrieval raised, the job goes on to
\* the upsert with the narrative parsed from the LLM response.
C10_LLMFailureFallsBack ==
  /\ [](\A j \in JobIds :
          /\ (jobs[j].pc = "upsert" /\ jobs[j].llmRaised)
             => Narrative(jobs[j].analysisResult) = getMockResponse
          /\ (jobs[j].pc = "upsert" /\ jobs[j].ragRaised /\ ~jobs[j].llmRaised)
             => \E resp \in LLMResponses :
                  Narrative(jobs[j].analysisResult) = parseAIResponse(resp))
  /\ [][\A j \in JobIds :
          (jobs[j].pc = "upsert" /\ jobs[j].llmRaised /\ jobs'[j].pc = "completed")
          => \E x \in analysisResults' :
               /\ x.workflowRunId = jobs[j].runId
               /\ Narrative(x) = getMockResponse
               /\ NonEmpty(x)]_vars

\* An AnalysisResult carrying the fallback narrative is stored.
C10_Witness ==
  \E x \in analysisResults : Narrative(x) = getMockResponse /\ NonEmpty(x)

\* Errors after which a re-attempt cannot succeed.
TerminalErrors == {"No .txt log files found in the downloaded zip."}

\* C11: a job that failed with a transient transport error is attempted
\* again, and a job that failed with an empty-log error stays failed.
C11_RetryByErrorKind ==
  /\ \A j \in JobIds :
       [](jobs[j].pc = "failed" /\ jobs[j].error = "transport error"
          => <>(jobs[j].pc # "failed"))
  /\ [][\A j \in JobIds :
          (jobs[j].pc = "failed" /\ jobs[j].error \in TerminalErrors)
          => jobs'[j] = jobs[j]]_vars

NumJobs(js) == Cardinality({k \in JobIds : js[k].pc # "absent"})

\* C18: a webhook for a failed run with an installation puts exactly one job
\* for that run on the queue by the time the handler answers.
C18_FailureWebhookEnqueues ==
  [][\A r \in Runs, uo \in Outcomes, ao \in Outcomes :
       Webhook(r, "failure", TRUE, uo, ao)
       => /\ NumJobs(jobs') = NumJobs(jobs) + 1
          /\ \E k \in JobIds :
               /\ jobs[k].pc = "absent"
               /\ jobs'[k].pc = "queued" /\ jobs'[k].runId = r]_vars

\* C19 as stated: once a run is stored with a status, no later delivery
\* changes that status.
C19_StatusNeverChanges ==
  [][\A r \in Runs :
       workflowRuns[r] # "absent" => workflowRuns'[r] = workflowRuns[r]]_vars

\* C19: the status of a stored run changes only by a webhook delivery for
\* that run, every delivery whose upsert succeeds leaves the conclusion it
\* carries as the status, and a stored run never loses its status.
C19_StatusIsLatestConclusion ==
  [][\A r \in Runs :
       /\ \A c \in Conclusions, inst \in BOOLEAN, ao \in Outcomes :
            Webhook(r, c, inst, "ok", ao) => workflowRuns'[r] = c
       /\ workflowRuns'[r] # workflowRuns[r]
          => \E c \in Conclusions, inst \in BOOLEAN, ao \in Outcomes :
               Webhook(r, c, inst, "ok", ao)
       /\ workflowRuns[r] # "absent" => workflowRuns'[r] \in Conclusions]_vars

\* A run that was delivered as failed (it has a job) now has another status.
C19_Witness ==
  \E r \in Runs : JobsOf(r) # {} /\ workflowRuns[r] \in Conclusions \ {"failure"}

\* The classification of the log the provider serves for a run.
RunClass(r) ==
  classify(parseResult[archiveOf[r]].chunks, parseResult[archiveOf[r]].detectedErrors)

\* C12: for a run the classifier classifies INTENTIONAL no job calls the
\* analyzer, and the stored AnalysisResult has used-LLM false, priority in
\* {0, 5} and the classifier's narrative; a job skips the LLM only for an
\* INTENTIONAL classification.
C12_IntentionalSkipsLLM ==
  /\ \A r \in Runs :
       RunClass(r).failureType = "INTENTIONAL"
       => /\ \A j \in JobsOf(r) : ~HasEv(j, "analyze")
          /\ \A x \in RunResults(r) :
               /\ x.usedAI = FALSE
               /\ x.priority \in {0, 5}
               /\ x.failureType = "INTENTIONAL"
               /\ Narrative(x) = Narrative(RunClass(r))
  /\ \A j \in JobIds :
       jobs[j].classification # NoClass
       => (jobs[j].classification.skipAI
             <=> jobs[j].classification.failureType = "INTENTIONAL")

\* The result of a run classified INTENTIONAL is stored.
C12_Witness ==
  \E r \in Runs :
    /\ RunClass(r).failureType = "INTENTIONAL"
    /\ RunResults(r) # {}
    /\ \E j \in JobsOf(r) : Succeeded(j)

\* C15: a job whose classifier result is UNKNOWN has called the LLM
\* classification before it writes the AnalysisResult, and stores a failure
\* type and priority returned by that call (UNKNOWN / 99 only if it failed).
C15_UnknownIsClassifiedByLLM ==
  \A j \in JobIds :
    (jobs[j].pc = "upsert" /\ jobs[j].classification.failureType = "UNKNOWN")
    => HasEv(j, "classifyWithAI")

\* C17: the stored used-LLM flag is true only for a result whose narrative
\* comes from an LLM response; it is false for a classifier-derived and for a
\* fallback-derived result.
C17_UsedLLMIsProvenance ==
  /\ \A j \in JobIds :
       jobs[j].pc = "upsert"
       => (resultData(j, jobs[j].runId, jobs[j].analysisResult).usedAI
             <=> (~jobs[j].classification.skipAI /\ ~jobs[j].llmRaised))
  /\ \A x \in analysisResults : x.usedAI => Narrative(x) # getMockResponse

\* Failure types in the order classify tries their detectors.
DetectionOrder ==
  <<"INTENTIONAL", "TEST", "BUILD", "RUNTIME", "INFRA", "SECURITY", "TIMEOUT",
    "DEPENDENCY", "CONFIG", "PERMISSION", "LINT">>

\* Positions of the detectors that match the returned parse.
Hits == {k \in 1..Len(DetectionOrder) :
           detectors(ret.chunks, ret.detectedErrors)[k] # NoClass}

FirstHit == CHOOSE k \in Hits : \A m \in Hits : k <= m

\* C13: classify returns the result of the earliest matching detector in the
\* order INTENTIONAL, TEST, ..., LINT, with priority 1..10 for TEST..LINT;
\* without a match it returns UNKNOWN with priority 99 and skip-LLM false.
C13_StrictDetectionOrder ==
  ret.fn = "classify"
  => LET c == ret.classification
     IN IF Hits = {}
        THEN c.failureType = "UNKNOWN" /\ c.priority = 99 /\ c.skipAI = FALSE
        ELSE /\ c = detectors(ret.chunks, ret.detectedErrors)[FirstHit]
             /\ c.failureType = DetectionOrder[FirstHit]
             /\ FirstHit > 1 => (c.priority = FirstHit - 1 /\ c.skipAI = FALSE)

\* Several detectors match, INTENTIONAL among them, and INTENTIONAL is returned.
C13_Witness ==
  /\ ret.fn = "classify"
  /\ {1, 2} \subseteq Hits
  /\ ret.classification.failureType = "INTENTIONAL"

\* Some line of some chunk's content satisfies Test.
SomeContentLine(chunks, Test(_)) ==
  \E k \in 1..Len(chunks) : \E m \in 1..Len(chunks[k].content) :
    Test(chunks[k].content[m])

\* C14 as stated: content holding `exit 1` at any position, also inside a
\* longer line, is classified INTENTIONAL with skip-LLM true.
C14_ExitAnywhereIsIntentional ==
  LET holdsExit(line) == lineIncludes(line, LnExit)
  IN (ret.fn = "classify" /\ SomeContentLine(ret.chunks, holdsExit))
     => /\ ret.classification.failureType = "INTENTIONAL"
        /\ ret.classification.skipAI = TRUE

\* C14: content with a line that consists of an exit command with a non-zero
\* status is classified INTENTIONAL with skip-LLM true, whatever other errors
\* are present.
C14_ExitLineIsIntentional ==
  LET isExit(line) == line \in exitPattern
  IN (ret.fn = "classify" /\ SomeContentLine(ret.chunks, isExit))
     => /\ ret.classification.failureType = "INTENTIONAL"
        /\ ret.classification.skipAI = TRUE

\* A chunk holds an exit line next to a test and a build error.
C14_Witness ==
  LET isExit(line) == line \in exitPattern
  IN /\ ret.fn = "classify"
     /\ SomeContentLine(ret.chunks, isExit)
     /\ {2, 3} \subseteq Hits
     /\ ret.classification.failureType = "INTENTIONAL"

\* The missing-module line is the only error line of the steps of the log.
OnlyMissingModule ==
  LET isError(line) == firstMatch(line, 1) # 0
      isOther(line) == isError(line) /\ line # LnNpmMissing
  IN /\ ret.fn = "classify"
     /\ SomeContentLine(ret.chunks, isError)
     /\ ~SomeContentLine(ret.chunks, isOther)

OneDependencyError ==
  /\ Len(ret.detectedErrors) = 1
  /\ ret.detectedErrors[1].category = "Dependency Issue"
  /\ ret.detectedErrors[1].confidence = "high"
  /\ ret.detectedErrors[1].errorMessage = LnNpmMissing

\* C16 as stated: the log with the missing-module line as its only error
\* line has one detected error, Dependency Issue / high, and is classified
\* DEPENDENCY with priority 7.
C16_MissingModuleIsDependency ==
  OnlyMissingModule
  => /\ OneDependencyError
     /\ ret.classification.failureType = "DEPENDENCY"
     /\ ret.classification.priority = 7

\* C16: the log with the missing-module line as its only error line has one
\* detected error, Dependency Issue / high, and is classified BUILD with
\* priority 2, or INTENTIONAL when the step holding it is named as a forced
\* failure.
C16_MissingModuleIsBuild ==
  OnlyMissingModule
  => /\ OneDependencyError
     /\ IF detectors(ret.chunks, ret.detectedErrors)[1] # NoClass
        THEN ret.classification.failureType = "INTENTIONAL"
        ELSE /\ ret.classification.failureType = "BUILD"
             /\ ret.classification.priority = 2

\* The missing-module line is the only error line and the result is BUILD.
C16_Witness ==
  OnlyMissingModule /\ ret.classification.failureType = "BUILD" /\ 8 \in Hits

\* C20: with at least one admitted case the confidence score is between
\* 0.75 and 0.95; it is 0.5 only when no case was admitted.
C20_ConfidenceWithCases ==
  ret.fn = "assessConfidence"
  => /\ Len(ret.context.similarCases) >= 1
        => (ret.confidence >= 75 /\ ret.confidence <= 95)
     /\ ret.confidence = 50 => Len(ret.context.similarCases) = 0

(***************************************************************************)
(* Parser structure                                                        *)
(***************************************************************************)
\* C21: the steps detectSteps returns have increasing, non-overlapping
\* inclusive line ranges that together cover every line 0..L-1 of the
\* cleaned log without a gap.
C21_StepsCoverEveryLine ==
  (ret.fn = "classify" /\ Len(ret.lines) > 0) =>
    LET steps == ret.steps
    IN /\ Len(steps) >= 1
       /\ steps[1].startLine = 0
       /\ steps[Len(steps)].endLine = Len(ret.lines) - 1
       /\ \A k \in 1..Len(steps) : steps[k].startLine <= steps[k].endLine
       /\ \A k \in 1..(Len(steps) - 1) :
            steps[k + 1].startLine = steps[k].endLine + 1

RECURSIVE Contents(_)
Contents(chunks) ==
  IF chunks = <<>> THEN <<>> ELSE Head(chunks).content \o Contents(Tail(chunks))

\* C22: a step of N lines is split into ceil(N/1000) chunks of at most 1000
\* lines whose contents, in order, are the step's lines; up to and including
\* 1000 lines it is one chunk with the step's name, from 1001 lines on the
\* chunks are named '<step> (part k)' and have contiguous absolute ranges.
C22_ChunksOfAStep ==
  ret.fn = "createChunks" =>
    LET step == ret.step
        chunks == ret.chunks
        N == Len(ret.stepLines)
        K == (N + 999) \div 1000
    IN /\ Len(chunks) = K
       /\ \A k \in 1..K : /\ chunks[k].lineCount <= 1000
                           /\ Len(chunks[k].content) = chunks[k].lineCount
                           /\ chunks[k].chunkIndex = k - 1
       /\ Contents(chunks) = ret.stepLines
       /\ N <= 1000 => /\ chunks[1].stepName = step.name
                       /\ chunks[1].content = join(ret.stepLines)
                       /\ chunks[1].startLine = step.startLine
                       /\ chunks[1].endLine = step.endLine
       /\ N >= 1001 =>
            /\ \A k \in 1..K :
                 /\ chunks[k].stepName = PartNames[step.name][k]
                 /\ chunks[k].endLine = chunks[k].startLine + chunks[k].lineCount - 1
            /\ chunks[1].startLine = step.startLine
            /\ chunks[K].endLine = step.endLine
            /\ \A k \in 1..(K - 1) :
                 /\ chunks[k].lineCount = 1000
                 /\ chunks[k + 1].startLine = chunks[k].endLine + 1

\* A step of 2001 lines was split into three parts, the last of one line.
C22_Witness ==
  /\ ret.fn = "createChunks"
  /\ Len(ret.stepLines) = 2001
  /\ Len(ret.chunks) = 3
  /\ ret.chunks[3].lineCount = 1
  /\ ret.chunks[3].stepName = ret.step.name \o " (part 3)"

\* C24: the similar past cases retrieved for a run never include a chunk of
\* the run that is being analysed.
C24_PastCasesFromOtherRuns ==
  [][\A j \in JobIds, cases \in SUBSET similarRows(logChunks),
        lo \in Outcomes, resp \in LLMResponses :
        AnalyzeFailure(j, "ok", cases, lo, resp) =>
          \A c \in cases : c.workflowRunId # jobs[j].runId]_vars

\* C25: hasSimilarCases is true exactly when the list of admitted cases
\* (similarity at least 0.6) is not empty; the result is marked usedRAG and
\* the prompt gets its historical-context section only when at least one
\* case was admitted.
C25_SimilarCasesMeansAdmitted ==
  ret.fn = "assessConfidence" =>
    LET admitted == Len(ret.context.similarCases)
        historical == \E k \in 1..Len(ret.prompt) :
                        ret.prompt[k].section = "HISTORICAL CONTEXT"
    IN /\ ret.context.hasSimilarCases <=> admitted > 0
       /\ ret.usedRAG => admitted >= 1
       /\ historical => admitted >= 1

\* The catalogue category of a content line, Null if it is no error line.
CategoryOf(line) ==
  IF firstMatch(line, 1) = 0 THEN Null
  ELSE errorPatterns[firstMatch(line, 1)].category

\* The chunks whose content holds the error line of entry e.
ChunksWith(chunks, e) ==
  {k \in 1..Len(chunks) :
     \E p \in 1..Len(chunks[k].content) :
        /\ chunks[k].content[p] = e.errorMessage
        /\ CategoryOf(chunks[k].content[p]) = e.category}

\* C26 (as claimed): errors are deduplicated within each chunk only, so an
\* error line that occurs in two chunks is reported once per chunk, with the
\* index and step name of that chunk.
C26_DedupWithinChunkOnly ==
  ret.fn = "classify" =>
    \A k \in 1..Len(ret.chunks) : \A p \in 1..Len(ret.chunks[k].content) :
       CategoryOf(ret.chunks[k].content[p]) # Null =>
         Cardinality({i \in 1..Len(ret.detectedErrors) :
            /\ ret.detectedErrors[i].errorMessage = ret.chunks[k].content[p]
            /\ ret.detectedErrors[i].category = CategoryOf(ret.chunks[k].content[p])
            /\ ret.detectedErrors[i].chunkIndex = ret.chunks[k].chunkIndex
            /\ ret.detectedErrors[i].stepName = ret.chunks[k].stepName}) = 1

\* C26 (amended): errors are deduplicated by (category, message) over the
\* whole parse result: every error line of a chunk is reported exactly once,
\* with the index and step name of the first chunk that holds it.
C26_DedupAcrossChunks ==
  ret.fn = "classify" =>
    LET errs == ret.detectedErrors
        chunks == ret.chunks
    IN /\ \A i, j \in 1..Len(errs) :
            (errs[i].category = errs[j].category
             /\ errs[i].errorMessage = errs[j].errorMessage) => i = j
       /\ \A i \in 1..Len(errs) :
            /\ ChunksWith(chunks, errs[i]) # {}
            /\ \A k \in ChunksWith(chunks, errs[i]) : errs[i].chunkIndex <= k - 1
            /\ errs[i].chunkIndex + 1 \in ChunksWith(chunks, errs[i])
            /\ errs[i].stepName = chunks[errs[i].chunkIndex + 1].stepName
       /\ \A k \in 1..Len(chunks) : \A p \in 1..Len(chunks[k].content) :
            CategoryOf(chunks[k].content[p]) # Null =>
              \E i \in 1..Len(errs) :
                 /\ errs[i].errorMessage = chunks[k].content[p]
                 /\ errs[i].category = CategoryOf(chunks[k].content[p])

\* The same assertion line is in two chunks and is reported once, for the
\* first of them.
C26_Witness ==
  /\ ret.fn = "classify"
  /\ Len(ret.chunks) = 2
  /\ \A k \in 1..2 : \E p \in 1..Len(ret.chunks[k].content) :
        ret.chunks[k].content[p] = LnAssert
  /\ Len(ret.detectedErrors) = 1
  /\ ret.detectedErrors[1].chunkIndex = 0

\* C27: when the first balanced brace group of the LLM response is a valid
\* JSON object, parseAIResponse returns the rootCause, failureStage and
\* suggestedFix of that object, whatever text with braces precedes or
\* follows it.
C27_FirstJsonObjectIsParsed ==
  ret.fn = "parseAIResponse" =>
    LET groups == {k \in 1..Len(call.aiText) : call.aiText[k] \in hasOpen}
    IN \A k \in groups :
         ((\A m \in groups : k <= m) /\ call.aiText[k] \in DOMAIN JSONparse) =>
           /\ ret.value.rootCause = JSONparse[call.aiText[k]].rootCause
           /\ ret.value.failureStage = JSONparse[call.aiText[k]].failureStage
           /\ ret.value.suggestedFix = JSONparse[call.aiText[k]].suggestedFix

Count(str, Test(_)) == Len(SelectSeq(str, Test))

\* The maximal whitespace runs of str with a character on both sides.
InnerRuns(str) ==
  {k \in 2..Len(str) :
     /\ str[k] = " " /\ str[k - 1] # " "
     /\ \E m \in (k + 1)..Len(str) : str[m] # " "}

\* C28 (as claimed): the category is uppercased and every non-alphanumeric
\* character is replaced by an underscore, an empty or missing category is
\* UNKNOWN; the result holds only A-Z, 0-9 and underscore and is not empty.
C28_NonAlphanumericToUnderscore ==
  ret.fn = "classifyWithAI" =>
    LET given == call.failureType
        out == ret.failureType
    IN /\ out # <<>>
       /\ \A k \in 1..Len(out) : out[k] \in AlphaNum \cup {"_"} \cup {"U", "N", "K", "O", "W"}
       /\ (~call.present \/ given = <<>>) => out = UNKNOWN
       /\ (call.present /\ given # <<>>) =>
            /\ Len(out) = Len(given)
            /\ \A k \in 1..Len(given) :
                 out[k] = IF toUpperCase(given)[k] \in AlphaNum
                          THEN toUpperCase(given)[k] ELSE "_"

\* C28 (amended): the category is uppercased and trimmed, each inner run of
\* whitespace becomes one underscore and every other character outside A-Z,
\* 0-9 and underscore is removed; when nothing is left, or the category is
\* missing, the result is UNKNOWN; it holds only A-Z, 0-9 and underscore
\* and is not empty.
C28_NormalizedCategory ==
  ret.fn = "classifyWithAI" =>
    LET given == call.failureType
        out == ret.failureType
        isAlphaNum(c) == c \in AlphaNum
        isUnderscore(c) == c = "_"
        kept == Count(toUpperCase(given), isAlphaNum)
                + Count(given, isUnderscore) + Cardinality(InnerRuns(given))
    IN /\ out # <<>>
       /\ \A k \in 1..Len(out) : out[k] \in AlphaNum \cup {"_"} \cup {"U", "N", "K", "O", "W"}
       /\ (~call.present \/ kept = 0) => out = UNKNOWN
       /\ (call.present /\ kept > 0) =>
            /\ Len(out) = kept
            /\ SelectSeq(out, isAlphaNum) = SelectSeq(toUpperCase(given), isAlphaNum)
            /\ Count(out, isUnderscore)
                 = Count(given, isUnderscore) + Cardinality(InnerRuns(given))

\* A hyphen between two letters was removed, not replaced.
C28_Witness ==
  /\ ret.fn = "classifyWithAI"
  /\ call.failureType = <<"a", "-", "B">>
  /\ ret.failureType = <<"A", "B">>

\* C29: every detected error's chunk is flagged: the chunk with index
\* e.chunkIndex has hasErrors = true and errorCount >= 1, also for lines
\* that held a stray carriage return.
C29_ErrorChunksAreFlagged ==
  ret.fn = "classify" =>
    \A i \in 1..Len(ret.detectedErrors) :
       LET e == ret.detectedErrors[i]
       IN \E k \in 1..Len(ret.chunks) :
            /\ ret.chunks[k].chunkIndex = e.chunkIndex
            /\ ret.chunks[k].hasErrors
            /\ ret.chunks[k].errorCount >= 1

\* The chunk in which the exit line of the log occurs as a line of its own.
ExitChunks(chunks) ==
  {k \in 1..Len(chunks) :
     \E p \in 1..Len(chunks[k].content) : chunks[k].content[p] \in exitPattern}

\* C30: when the classification is INTENTIONAL because of an exit error, the
\* failure stage is the step name of the chunk in which the exit line
\* occurs, also when an earlier chunk holds the same text inside a longer
\* line or an earlier step's name contains 'exit'.
C30_StageIsExitStep ==
  (/\ ret.fn = "classify"
   /\ ret.classification.failureType = "INTENTIONAL"
   /\ \E i \in 1..Len(ret.detectedErrors) :
         ret.detectedErrors[i].category = "Exit Failure") =>
    \E k \in ExitChunks(ret.chunks) :
       ret.classification.failureStage = ret.chunks[k].stepName

\* C23: cleaning the text the cleaner produced gives the same text again,
\* also for lines with a stray carriage return or a repeated leading
\* timestamp.
C23_CleanerIdempotent ==
  ret.fn = "cleanLog" => ret.twice = ret.once

====
